---- MODULE Spec2Model ----
(***************************************************************************)
(* State-machine model of src/main.py: the four-agent news pipeline        *)
(* (collect, evaluate, summarize, deliver), its agent loop run_agent, the  *)
(* tool dispatcher execute_tool and the link resolver.                     *)
(*                                                                         *)
(* Text is modelled as a sequence of characters (one-character strings and *)
(* a few multi-character markers standing for fixed literals).  The        *)
(* text-generation service, the news feed, the redirect decoder and the    *)
(* push endpoint are the environment: their replies are nondeterministic   *)
(* choices from small sets.                                                *)
(***************************************************************************)
EXTENDS Integers, Sequences, FiniteSets, TLC

(***************************************************************************)
(* Program constants                                                       *)
(***************************************************************************)
\* run_agent(..., max_iter: int = 5); main never overrides it
max_iter == 5
\* if len(message_text) > 5000
LineLimit == 5000
\* message_text[:4990]
TruncLen == 4990
\* input_data.get("max_items", 15)
DefaultMaxItems == 15
\* entry.get("summary", "")[:300]
SummaryLimit == 300
\* resp.status_code == 200
HttpOK == 200

(***************************************************************************)
(* Bounds of the model                                                     *)
(***************************************************************************)
\* tool calls of one run when the generation service may reply anything:
\* feed queries, push requests
MaxFeedCalls == 1
MaxPushCalls == 2
\* calls of tools execute_tool does not know
MaxOtherCalls == 2
\* longest feed of the fetch scenarios is DefaultMaxItems + FeedSlack entries
FeedSlack == 2
\* message lengths of the send scenarios: LineLimit - LenSlack .. LineLimit + LenSlack
LenSlack == 12

(***************************************************************************)
(* Text helpers (Python str operations)                                    *)
(***************************************************************************)
Min(a, b) == IF a < b THEN a ELSE b
Max(a, b) == IF a > b THEN a ELSE b

\* s[:n] for a Python sequence or string, n any integer
SliceTo(s, n) ==
    IF n >= 0 THEN SubSeq(s, 1, Min(n, Len(s)))
    ELSE SubSeq(s, 1, Max(0, Len(s) + n))

\* `s in t` for Python strings
IsSubstring(s, t) ==
    \E i \in 0..(Len(t) - Len(s)) : SubSeq(t, i + 1, i + Len(s)) = s

Digit(d) == <<"0", "1", "2", "3", "4", "5", "6", "7", "8", "9">>[d + 1]

RECURSIVE IntStr(_)
\* f"{n}" for a non-negative integer
IntStr(n) == IF n < 10 THEN <<Digit(n)>> ELSE IntStr(n \div 10) \o <<Digit(n % 10)>>

(***************************************************************************)
(* Articles and their serialisation (json.dumps of the article list)       *)
(***************************************************************************)
Article(t, l, s, p) == [title |-> t, link |-> l, summary |-> s, published |-> p]

ArticleJson(a) ==
    <<"{">> \o a.title \o <<"|">> \o a.link \o <<"|">> \o a.summary
            \o <<"|">> \o a.published \o <<"}">>

RECURSIVE JoinArticles(_)
JoinArticles(arts) ==
    IF arts = <<>> THEN <<>>
    ELSE IF Len(arts) = 1 THEN ArticleJson(arts[1])
    ELSE ArticleJson(arts[1]) \o <<",">> \o JoinArticles(Tail(arts))

ArticlesJson(arts) == <<"[">> \o JoinArticles(arts) \o <<"]">>

(***************************************************************************)
(* Link resolver                                                           *)
(***************************************************************************)
\* What new_decoderv1 does for one URL: raises, returns None, or returns a
\* dict {"status": False, "message": ...} / {"status": True, "decoded_url": u}
DecRaise == [kind |-> "raise", status |-> FALSE, decoded_url |-> <<>>]
DecNone == [kind |-> "none", status |-> FALSE, decoded_url |-> <<>>]
DecFail == [kind |-> "dict", status |-> FALSE, decoded_url |-> <<>>]
DecOk(u) == [kind |-> "dict", status |-> TRUE, decoded_url |-> u]

\* the resolver without its check of the status
resolve_ignoring_status(google_url, out) ==
    IF out.kind = "dict" THEN out.decoded_url ELSE google_url

\* resolve_google_news_url(google_url), `out` the decoder's outcome for it
resolve_google_news_url(google_url, out) ==
    IF out.kind = "dict" /\ out.status THEN out.decoded_url ELSE google_url

(***************************************************************************)
(* execute_tool                                                            *)
(***************************************************************************)
\* A feed entry; has_x = FALSE means entry.get("x", "") takes its default
Entry(ht, t, hl, l, hs, s, hp, p) ==
    [has_title |-> ht, title |-> t, has_link |-> hl, link |-> l,
     has_summary |-> hs, summary |-> s, has_published |-> hp, published |-> p]

\* entry.get(key, "")
GetOr(has, value) == IF has THEN value ELSE <<>>

\* The body of the for loop of the fetch_rss_news branch: one article from
\* one entry, dec the decoder's behaviour (a function of the URL)
ArticleOf(entry, dec) ==
    LET raw_link == GetOr(entry.has_link, entry.link)
        real_link == resolve_google_news_url(raw_link, dec[raw_link])
    IN  Article(GetOr(entry.has_title, entry.title),
                real_link,
                SliceTo(GetOr(entry.has_summary, entry.summary), SummaryLimit),
                GetOr(entry.has_published, entry.published))

\* input_data.get("max_items", 15)
MaxItemsOf(input) == IF input.has_max_items THEN input.max_items ELSE DefaultMaxItems

\* feed.entries[:max_items]
EntriesTaken(input, entries) == SliceTo(entries, MaxItemsOf(input))

\* the article list without the entries whose link the decoder raised on
FetchArticlesSkippingRaised(input, entries, dec) ==
    LET Kept(e) == dec[GetOr(e.has_link, e.link)].kind # "raise"
        taken == SelectSeq(EntriesTaken(input, entries), Kept)
    IN  [i \in 1..Len(taken) |-> ArticleOf(taken[i], dec)]

\* The article list the fetch_rss_news branch builds
FetchArticles(input, entries, dec) ==
    LET taken == EntriesTaken(input, entries)
    IN  [i \in 1..Len(taken) |-> ArticleOf(taken[i], dec)]

\* len(message_text) > 5000 -> message_text[:4990] + "\n..."
Ellipsis == <<"\n", ".", ".", ".">>

\* the truncation with >= for >
TruncateMessageInclusive(message_text) ==
    IF Len(message_text) >= LineLimit
    THEN SliceTo(message_text, TruncLen) \o Ellipsis
    ELSE message_text

\* the truncation that cuts at the limit and then appends the marker
TruncateMessageAtLimit(message_text) ==
    IF Len(message_text) > LineLimit
    THEN SliceTo(message_text, LineLimit) \o Ellipsis
    ELSE message_text

TruncateMessage(message_text) ==
    IF Len(message_text) > LineLimit
    THEN SliceTo(message_text, TruncLen) \o Ellipsis
    ELSE message_text

\* the outcome with every 2xx status taken for success
SendOutcomeAny2xx(status_code, body) ==
    IF status_code >= 200 /\ status_code < 300
    THEN <<"LINE_SEND_OK">>
    ELSE <<"LINE_SEND_ERROR: status=">> \o IntStr(status_code) \o <<", body=">> \o body

\* What the send_line_message branch returns for the endpoint's answer
SendOutcome(status_code, body) ==
    IF status_code = HttpOK
    THEN <<"LINE_SEND_OK">>
    ELSE <<"LINE_SEND_ERROR: status=">> \o IntStr(status_code) \o <<", body=">> \o body

\* The final return of execute_tool
UnknownTool(name) == <<"UNKNOWN_TOOL: ", name>>

(***************************************************************************)
(* Content blocks, responses and conversation messages                     *)
(***************************************************************************)
ToolInput(hq, q, hm, m, hmsg, msg) ==
    [has_query |-> hq, query |-> q, has_max_items |-> hm, max_items |-> m,
     has_message |-> hmsg, message |-> msg]

NoInput == ToolInput(FALSE, <<>>, FALSE, 0, FALSE, <<>>)

TextBlock(t) ==
    [type |-> "text", text |-> t, id |-> "", name |-> "", input |-> NoInput]

ToolUse(id, name, input) ==
    [type |-> "tool_use", text |-> <<>>, id |-> id, name |-> name, input |-> input]

ToolResult(id, content) ==
    [type |-> "tool_result", tool_use_id |-> id, content |-> content]

UserText(t) == [role |-> "user", text |-> t, blocks |-> <<>>, results |-> <<>>]
UserResults(rs) == [role |-> "user", text |-> <<>>, blocks |-> <<>>, results |-> rs]
Assistant(bs) == [role |-> "assistant", text |-> <<>>, blocks |-> bs, results |-> <<>>]

RECURSIVE JoinText(_)
\* "".join(b.text for b in response.content if hasattr(b, "text"))
JoinText(content) ==
    IF content = <<>> THEN <<>>
    ELSE (IF content[1].type = "text" THEN content[1].text ELSE <<>>)
         \o JoinText(Tail(content))

\* The string run_agent returns when the loop runs out
MaxIterText == <<"MAX_ITERATIONS_REACHED">>

(***************************************************************************)
(* The environment's universe                                              *)
(***************************************************************************)
Title1 == <<"t", "1">>
Title2 == <<"t", "2">>
\* redirect-wrapper URLs of the feed and the article URLs behind them
Wrapped1 == <<"g", "1">>
Wrapped2 == <<"g", "2">>
Link1 == <<"u", "1">>
Link2 == <<"u", "2">>
RawLinks == {<<>>, Wrapped1, Wrapped2}
Target(raw) == IF raw = Wrapped1 THEN Link1 ELSE IF raw = Wrapped2 THEN Link2 ELSE <<>>

Entry1 == Entry(TRUE, Title1, TRUE, Wrapped1, TRUE, <<"s">>, TRUE, <<"d">>)
Entry2 == Entry(TRUE, Title2, TRUE, Wrapped2, FALSE, <<>>, FALSE, <<>>)
\* an entry that lacks title and link
Entry3 == Entry(FALSE, <<>>, FALSE, <<>>, TRUE, <<"s">>, TRUE, <<"d">>)

\* decoder behaviours: every URL decoded, and every call raising
DecodeAll == [r \in RawLinks |-> IF r = <<>> THEN DecFail ELSE DecOk(Target(r))]
DecodeNone == [r \in RawLinks |-> DecRaise]
\* every behaviour: per URL raise / None / status false / status true
AllDecoders ==
    [RawLinks -> {DecRaise, DecNone, DecFail}] \cup
    {[r \in RawLinks |-> IF r \in S THEN DecOk(Target(r)) ELSE d[r]] :
        S \in (SUBSET {Wrapped1, Wrapped2}) \ {{}},
        d \in [RawLinks -> {DecRaise, DecFail}]}

\* feeds of the pipeline runs
Feeds == {<<>>, <<Entry1, Entry2>>}
Decoders == {DecodeAll, DecodeNone}

\* texts the generation service may reply with
Art1 == Article(Title1, Link1, <<>>, <<>>)
Art2 == Article(Title2, Link2, <<>>, <<>>)
\* both articles, links verbatim
GoodText == ArticlesJson(<<Art1, Art2>>)
\* both articles, the first link shortened
MangledText == ArticlesJson(<<Article(Title1, <<"u">>, <<>>, <<>>), Art2>>)
\* prose, no structure and no link
JunkText == <<"x">>
\* the list of no article
EmptyText == ArticlesJson(<<>>)
ReplyTexts == {GoodText, MangledText, JunkText}

FetchRequest == ToolUse("id1", "fetch_rss_news", ToolInput(TRUE, <<"q">>, FALSE, 0, FALSE, <<>>))
FetchNoQuery == ToolUse("id1", "fetch_rss_news", NoInput)
SendRequest(t) == ToolUse("id2", "send_line_message", ToolInput(FALSE, <<>>, FALSE, 0, TRUE, t))
SendNoMessage == ToolUse("id2", "send_line_message", NoInput)
OtherRequest == ToolUse("id3", "other_tool", NoInput)
OtherRequest2 == ToolUse("id4", "other_tool", NoInput)

Response(stop, content) == [stop_reason |-> stop, content |-> content]

\* replies of client.messages.create
Responses ==
    {Response("end_turn", <<TextBlock(t)>>) : t \in ReplyTexts}
    \cup {Response("max_tokens", <<TextBlock(JunkText), FetchRequest>>),
          Response("tool_use", <<TextBlock(JunkText), FetchRequest>>),
          Response("tool_use", <<FetchNoQuery>>),
          Response("tool_use", <<SendRequest(GoodText)>>),
          Response("tool_use", <<SendNoMessage>>),
          Response("tool_use", <<OtherRequest>>)}

\* the reply that relays a list of no article
EmptyReply == Response("end_turn", <<TextBlock(EmptyText)>>)
\* a reply with several tool_use blocks
MultiResponse ==
    Response("tool_use", <<SendRequest(JunkText), TextBlock(JunkText), OtherRequest2>>)

\* answers of the push endpoint
Statuses == {200, 500}
Bodies == {<<"e">>}

RECURSIVE CountTool(_, _)
\* tool_use blocks of a content that name the tool
CountTool(content, name) ==
    IF content = <<>> THEN 0
    ELSE (IF content[1].type = "tool_use" /\ content[1].name = name THEN 1 ELSE 0)
         + CountTool(Tail(content), name)

(***************************************************************************)
(* State                                                                   *)
(***************************************************************************)
VARIABLES
    stage,          \* step of main: 1 collect, 2 evaluate, 3 summarize, 4 deliver
    pc,             \* "call": about to call the generation service; "tools": in the
                    \* loop over response.content; "exit0" / "exit1": process ended
    iter,           \* completed iterations of run_agent's for loop
    messages,       \* run_agent's messages list
    content,        \* response.content of the response being processed
    blk,            \* index of the next block of content
    tool_results,   \* run_agent's tool_results list
    raw_news, filtered_news, summary, result,   \* main's locals
    feedCalls,      \* feedparser.parse calls issued in this run
    pushCalls,      \* requests.post calls issued in this run
    otherCalls,     \* execute_tool calls with a name it does not know
    lastFetch,      \* the last fetch: input, entries, decoder, articles
    lastPush,       \* the last push: message given, text sent, status, body, returned
                    \* (status 0: the endpoint did not answer)
    replies,        \* per step of main, the text of the last response received
    genCalls,       \* per step of main, client.messages.create calls issued
    stop_reason,    \* response.stop_reason of the last response received
    err             \* what raised the exception that ended the run, or "none"

vars == <<stage, pc, iter, messages, content, blk, tool_results, raw_news,
          filtered_news, summary, result, feedCalls, pushCalls, otherCalls, lastFetch,
          lastPush, replies, genCalls, stop_reason, err>>

locals == <<raw_news, filtered_news, summary, result>>
effects == <<feedCalls, pushCalls, otherCalls, lastFetch, lastPush>>

\* main's f-string user prompts
UserPrompt(s, input) ==
    CASE s = 1 -> <<"COLLECT">>
      [] s = 2 -> <<"EVALUATE: ">> \o input
      [] s = 3 -> <<"SUMMARIZE: ">> \o input
      [] s = 4 -> <<"SEND: ">> \o input

NoFetch == [input |-> NoInput, entries |-> <<>>, dec |-> DecodeNone, articles |-> <<>>]
NoPush == [message |-> <<>>, text |-> <<>>, status |-> 0, body |-> <<>>, returned |-> <<>>]

Init ==
    /\ stage = 1
    /\ pc = "call"
    /\ iter = 0
    /\ messages = <<UserText(UserPrompt(1, <<>>))>>
    /\ content = <<>>
    /\ blk = 0
    /\ tool_results = <<>>
    /\ raw_news = <<>>
    /\ filtered_news = <<>>
    /\ summary = <<>>
    /\ result = <<>>
    /\ feedCalls = 0
    /\ pushCalls = 0
    /\ otherCalls = 0
    /\ lastFetch = NoFetch
    /\ lastPush = NoPush
    /\ replies = [s \in 1..4 |-> <<>>]
    /\ genCalls = [s \in 1..4 |-> 0]
    /\ stop_reason = "none"
    /\ err = "none"

(***************************************************************************)
(* run_agent and main                                                      *)
(***************************************************************************)
\* run_agent returns text to main: main binds it and starts the next step,
\* or, after step 4, returns and the process ends normally
ReturnToMain(text) ==
    /\ raw_news' = IF stage = 1 THEN text ELSE raw_news
    /\ filtered_news' = IF stage = 2 THEN text ELSE filtered_news
    /\ summary' = IF stage = 3 THEN text ELSE summary
    /\ result' = IF stage = 4 THEN text ELSE result
    /\ IF stage < 4
       THEN /\ stage' = stage + 1
            /\ pc' = "call"
            /\ messages' = <<UserText(UserPrompt(stage + 1, text))>>
       ELSE /\ stage' = stage
            /\ pc' = "exit0"
            /\ messages' = <<>>
    /\ iter' = 0
    /\ content' = <<>>
    /\ blk' = 0
    /\ tool_results' = <<>>

\* the handler that logs the exception and lets the process end normally
RaiseLoggedOnly(cause) ==
    /\ pc' = "exit0"
    /\ err' = cause
    /\ messages' = <<>>
    /\ content' = <<>>
    /\ blk' = 0
    /\ tool_results' = <<>>
    /\ UNCHANGED <<stage, iter, locals, replies>>

\* an exception propagates out of main: logged, sys.exit(1)
Raise(cause) ==
    /\ pc' = "exit1"
    /\ err' = cause
    /\ messages' = <<>>
    /\ content' = <<>>
    /\ blk' = 0
    /\ tool_results' = <<>>
    /\ UNCHANGED <<stage, iter, locals, replies>>

\* client.messages.create returns a response whose stop_reason is not tool_use
AgentReply(r) ==
    /\ pc = "call"
    /\ r.stop_reason # "tool_use"
    /\ ReturnToMain(JoinText(r.content))
    /\ replies' = [replies EXCEPT ![stage] = JoinText(r.content)]
    /\ genCalls' = [genCalls EXCEPT ![stage] = @ + 1]
    /\ stop_reason' = r.stop_reason
    /\ UNCHANGED <<effects, err>>

\* client.messages.create returns a response with stop_reason tool_use
AgentToolUse(r) ==
    /\ pc = "call"
    /\ r.stop_reason = "tool_use"
    /\ messages' = Append(messages, Assistant(r.content))
    /\ content' = r.content
    /\ blk' = 1
    /\ tool_results' = <<>>
    /\ pc' = "tools"
    /\ replies' = [replies EXCEPT ![stage] = JoinText(r.content)]
    /\ genCalls' = [genCalls EXCEPT ![stage] = @ + 1]
    /\ stop_reason' = r.stop_reason
    /\ UNCHANGED <<stage, iter, locals, effects, err>>

\* client.messages.create raises
AgentCallRaises ==
    /\ pc = "call"
    /\ Raise("generation")
    /\ genCalls' = [genCalls EXCEPT ![stage] = @ + 1]
    /\ UNCHANGED <<effects, stop_reason>>

AtBlock == pc = "tools" /\ blk <= Len(content)
AtTool(name) == AtBlock /\ content[blk].type = "tool_use" /\ content[blk].name = name
AtOtherTool ==
    /\ AtBlock
    /\ content[blk].type = "tool_use"
    /\ content[blk].name \notin {"fetch_rss_news", "send_line_message"}

\* the tool_result that carries the id of the first block of the content
AnswerFirstId(text) ==
    /\ tool_results' = Append(tool_results, ToolResult(content[1].id, text))
    /\ blk' = blk + 1
    /\ UNCHANGED <<stage, pc, iter, messages, content, locals, replies, err>>

\* append the tool_result of the current block and go to the next block
Answer(text) ==
    /\ tool_results' = Append(tool_results, ToolResult(content[blk].id, text))
    /\ blk' = blk + 1
    /\ UNCHANGED <<stage, pc, iter, messages, content, locals, replies, err>>

\* a block that is not a tool_use block is passed over
SkipBlock ==
    /\ AtBlock
    /\ content[blk].type # "tool_use"
    /\ blk' = blk + 1
    /\ UNCHANGED <<stage, pc, iter, messages, content, tool_results, locals, effects,
                   replies, genCalls, stop_reason, err>>

\* execute_tool("fetch_rss_news", input): the feed answers with entries
ExecFetch(entries, dec) ==
    /\ AtTool("fetch_rss_news")
    /\ content[blk].input.has_query
    /\ LET input == content[blk].input
           articles == FetchArticles(input, entries, dec)
       IN  /\ lastFetch' = [input |-> input, entries |-> entries, dec |-> dec,
                            articles |-> articles]
           /\ Answer(ArticlesJson(articles))
    /\ feedCalls' = feedCalls + 1
    /\ UNCHANGED <<pushCalls, otherCalls, lastPush, genCalls, stop_reason>>

\* input_data["query"] raises KeyError
ExecFetchNoQuery ==
    /\ AtTool("fetch_rss_news")
    /\ ~content[blk].input.has_query
    /\ Raise("query")
    /\ UNCHANGED <<effects, genCalls, stop_reason>>

\* feedparser.parse raises (feed-level failure)
ExecFetchRaises ==
    /\ AtTool("fetch_rss_news")
    /\ content[blk].input.has_query
    /\ feedCalls' = feedCalls + 1
    /\ Raise("feed")
    /\ UNCHANGED <<pushCalls, otherCalls, lastFetch, lastPush, genCalls, stop_reason>>

\* the send with resp.raise_for_status() after the post
ExecSendStrict(status_code, body) ==
    /\ AtTool("send_line_message")
    /\ content[blk].input.has_message
    /\ LET message == content[blk].input.message
           returned == SendOutcome(status_code, body)
       IN  /\ lastPush' = [message |-> message, text |-> TruncateMessage(message),
                           status |-> status_code, body |-> body,
                           returned |-> returned]
           /\ IF status_code = HttpOK THEN Answer(returned) ELSE Raise("status")
    /\ pushCalls' = pushCalls + 1
    /\ UNCHANGED <<feedCalls, otherCalls, lastFetch, genCalls, stop_reason>>

\* execute_tool("send_line_message", input): the endpoint answers
ExecSend(status_code, body) ==
    /\ AtTool("send_line_message")
    /\ content[blk].input.has_message
    /\ LET message == content[blk].input.message
           returned == SendOutcome(status_code, body)
       IN  /\ lastPush' = [message |-> message, text |-> TruncateMessage(message),
                           status |-> status_code, body |-> body,
                           returned |-> returned]
           /\ Answer(returned)
    /\ pushCalls' = pushCalls + 1
    /\ UNCHANGED <<feedCalls, otherCalls, lastFetch, genCalls, stop_reason>>

\* input_data["message"] raises KeyError
ExecSendNoMessage ==
    /\ AtTool("send_line_message")
    /\ ~content[blk].input.has_message
    /\ Raise("message")
    /\ UNCHANGED <<effects, genCalls, stop_reason>>

\* requests.post raises (no answer from the endpoint)
ExecSendRaises ==
    /\ AtTool("send_line_message")
    /\ content[blk].input.has_message
    /\ lastPush' = [message |-> content[blk].input.message,
                    text |-> TruncateMessage(content[blk].input.message),
                    status |-> 0, body |-> <<>>, returned |-> <<>>]
    /\ pushCalls' = pushCalls + 1
    /\ Raise("post")
    /\ UNCHANGED <<feedCalls, otherCalls, lastFetch, genCalls, stop_reason>>

\* execute_tool with any other name
ExecOther ==
    /\ AtOtherTool
    /\ Answer(UnknownTool(content[blk].name))
    /\ otherCalls' = otherCalls + 1
    /\ UNCHANGED <<feedCalls, pushCalls, lastFetch, lastPush, genCalls, stop_reason>>

\* the loop that runs while the iteration count is <= max_iter
NextIterationInclusive ==
    /\ pc = "tools"
    /\ blk > Len(content)
    /\ iter + 1 <= max_iter
    /\ messages' = Append(messages, UserResults(tool_results))
    /\ iter' = iter + 1
    /\ pc' = "call"
    /\ content' = <<>>
    /\ blk' = 0
    /\ tool_results' = <<>>
    /\ UNCHANGED <<stage, locals, effects, replies, genCalls, stop_reason, err>>

\* end of the loop over response.content, another iteration follows
NextIteration ==
    /\ pc = "tools"
    /\ blk > Len(content)
    /\ iter + 1 < max_iter
    /\ messages' = Append(messages, UserResults(tool_results))
    /\ iter' = iter + 1
    /\ pc' = "call"
    /\ content' = <<>>
    /\ blk' = 0
    /\ tool_results' = <<>>
    /\ UNCHANGED <<stage, locals, effects, replies, genCalls, stop_reason, err>>

\* end of the loop over response.content in the last iteration
ReturnMaxIter ==
    /\ pc = "tools"
    /\ blk > Len(content)
    /\ iter + 1 >= max_iter
    /\ ReturnToMain(MaxIterText)
    /\ UNCHANGED <<effects, replies, genCalls, stop_reason, err>>

(***************************************************************************)
(* Runs with a generation service that keeps to its interface: it requests *)
(* only tools the call offered (tools=TOOLS_RSS in step 1, none in steps 2 *)
(* and 3, tools=TOOLS_LINE in step 4)                                      *)
(***************************************************************************)
ToolsOf(s) ==
    IF s = 1 THEN {"fetch_rss_news"} ELSE IF s = 4 THEN {"send_line_message"} ELSE {}

Conforms(r, s) ==
    /\ \A i \in 1..Len(r.content) :
            r.content[i].type = "tool_use" => r.content[i].name \in ToolsOf(s)
    /\ r.stop_reason = "tool_use" =>
            \E i \in 1..Len(r.content) : r.content[i].type = "tool_use"

Next ==
    \/ \E r \in Responses \cup {EmptyReply} : Conforms(r, stage) /\ AgentReply(r)
    \/ \E r \in Responses : Conforms(r, stage) /\ AgentToolUse(r)
    \/ AgentCallRaises
    \/ SkipBlock
    \/ \E entries \in Feeds, dec \in Decoders : ExecFetch(entries, dec)
    \/ ExecFetchNoQuery
    \/ ExecFetchRaises
    \/ \E status_code \in Statuses, body \in Bodies : ExecSend(status_code, body)
    \/ ExecSendNoMessage
    \/ ExecSendRaises
    \/ NextIteration
    \/ ReturnMaxIter

Spec == Init /\ [][Next]_vars

(***************************************************************************)
(* Runs with a generation service that may reply anything, also a request  *)
(* for a tool the call did not offer; the number of tool calls of a run is *)
(* bounded                                                                 *)
(***************************************************************************)
WithinCaps(r) ==
    /\ feedCalls + CountTool(r.content, "fetch_rss_news") <= MaxFeedCalls
    /\ pushCalls + CountTool(r.content, "send_line_message") <= MaxPushCalls
    /\ otherCalls + CountTool(r.content, "other_tool") <= MaxOtherCalls

\* the replies of these runs: every request, and one of the texts
AnyResponses ==
    {r \in Responses : r.stop_reason = "tool_use" \/ JoinText(r.content) = JunkText}
    \cup {MultiResponse}

NextAny ==
    \/ \E r \in AnyResponses : AgentReply(r)
    \/ \E r \in AnyResponses : WithinCaps(r) /\ AgentToolUse(r)
    \/ AgentCallRaises
    \/ SkipBlock
    \/ ExecFetch(<<Entry1, Entry2>>, DecodeAll)
    \/ ExecFetchNoQuery
    \/ ExecFetchRaises
    \/ \E status_code \in Statuses, body \in Bodies : ExecSend(status_code, body)
    \/ ExecSendNoMessage
    \/ ExecSendRaises
    \/ ExecOther
    \/ NextIteration
    \/ ReturnMaxIter

SpecAny == Init /\ [][NextAny]_vars

(***************************************************************************)
(* The delivery sender on its own: runs that have reached step 4 with the  *)
(* generation service requesting send_line_message for a long message      *)
(***************************************************************************)
\* a text of n characters, no two neighbours equal
LongMessage(n, k) ==
    [i \in 1..n |-> IF k = 1 THEN <<"a", "b", "c">>[(i % 3) + 1]
                    ELSE <<"x", "y">>[(i % 2) + 1]]

SendLengths == ((LineLimit - LenSlack)..(LineLimit + LenSlack)) \cup {0, 1, 6000}
SendMessages == {LongMessage(n, k) : n \in SendLengths, k \in 1..2}
SendStatuses == {200, 201, 404, 500}
SendBodies == {<<>>, <<"e">>}

InitSend ==
    \E m \in SendMessages :
        /\ stage = 4
        /\ pc = "tools"
        /\ iter = 0
        /\ content = <<SendRequest(m)>>
        /\ messages = <<UserText(UserPrompt(4, m)), Assistant(content)>>
        /\ blk = 1
        /\ tool_results = <<>>
        /\ raw_news = GoodText
        /\ filtered_news = GoodText
        /\ summary = m
        /\ result = <<>>
        /\ feedCalls = 0
        /\ pushCalls = 0
        /\ otherCalls = 0
        /\ lastFetch = NoFetch
        /\ lastPush = NoPush
        /\ replies = [s \in 1..4 |-> IF s = 4 THEN <<>> ELSE IF s = 3 THEN m ELSE GoodText]
        /\ genCalls = [s \in 1..4 |-> 1]
        /\ stop_reason = "tool_use"
        /\ err = "none"

NextSend ==
    \/ \E status_code \in SendStatuses, body \in SendBodies : ExecSend(status_code, body)
    \/ ExecSendRaises

SpecSend == InitSend /\ [][NextSend]_vars

(***************************************************************************)
(* The news fetcher on its own: runs in step 1 with the generation service *)
(* requesting fetch_rss_news, over every feed length and decoder behaviour *)
(***************************************************************************)
FeedOfLen(n) == [i \in 1..n |-> <<Entry1, Entry2, Entry3>>[(i % 3) + 1]]
AllFeeds == {FeedOfLen(n) : n \in 0..(DefaultMaxItems + FeedSlack)}
MaxItemsChoices ==
    {-1, 0, 1, 2, DefaultMaxItems, DefaultMaxItems + 1, DefaultMaxItems + FeedSlack}
FetchInputs ==
    {ToolInput(TRUE, <<"q">>, FALSE, 0, FALSE, <<>>)}
    \cup {ToolInput(TRUE, <<"q">>, TRUE, m, FALSE, <<>>) : m \in MaxItemsChoices}

InitFetch ==
    \E input \in FetchInputs :
        /\ stage = 1
        /\ pc = "tools"
        /\ iter = 0
        /\ content = <<ToolUse("id1", "fetch_rss_news", input)>>
        /\ messages = <<UserText(UserPrompt(1, <<>>)), Assistant(content)>>
        /\ blk = 1
        /\ tool_results = <<>>
        /\ raw_news = <<>>
        /\ filtered_news = <<>>
        /\ summary = <<>>
        /\ result = <<>>
        /\ feedCalls = 0
        /\ pushCalls = 0
        /\ otherCalls = 0
        /\ lastFetch = NoFetch
        /\ lastPush = NoPush
        /\ replies = [s \in 1..4 |-> <<>>]
        /\ genCalls = [s \in 1..4 |-> IF s = 1 THEN 1 ELSE 0]
        /\ stop_reason = "tool_use"
        /\ err = "none"

NextFetch ==
    \/ \E entries \in AllFeeds, dec \in AllDecoders : ExecFetch(entries, dec)
    \/ ExecFetchRaises

SpecFetch == InitFetch /\ [][NextFetch]_vars

(***************************************************************************)
(* Reading articles back out of a text (the inverse of ArticlesJson), used *)
(* to state what a step was handed and what it returned                    *)
(***************************************************************************)
\* first index of character c in s, 0 when there is none
RECURSIVE IndexFrom(_, _, _)
IndexFrom(s, c, i) ==
    IF i > Len(s) THEN 0 ELSE IF s[i] = c THEN i ELSE IndexFrom(s, c, i + 1)

RECURSIVE Split(_, _)
\* s.split(c)
Split(s, c) ==
    LET j == IndexFrom(s, c, 1)
    IN  IF j = 0 THEN <<s>>
        ELSE <<SubSeq(s, 1, j - 1)>> \o Split(SubSeq(s, j + 1, Len(s)), c)

ParseFailed == [ok |-> FALSE, arts |-> <<>>]

RECURSIVE ParseItems(_)
\* the items "{title|link|summary|published}" separated by ","
ParseItems(s) ==
    IF s = <<>> \/ s[1] # "{" THEN ParseFailed
    ELSE LET j == IndexFrom(s, "}", 1)
             fields == Split(SubSeq(s, 2, j - 1), "|")
             rest == SubSeq(s, j + 1, Len(s))
         IN  IF j = 0 \/ Len(fields) # 4 THEN ParseFailed
             ELSE LET a == Article(fields[1], fields[2], fields[3], fields[4])
                  IN  IF rest = <<>> THEN [ok |-> TRUE, arts |-> <<a>>]
                      ELSE IF rest[1] # "," THEN ParseFailed
                      ELSE LET more == ParseItems(Tail(rest))
                           IN  IF more.ok
                               THEN [ok |-> TRUE, arts |-> <<a>> \o more.arts]
                               ELSE ParseFailed

\* the article list a text holds, when the text is a list of articles
ParseArticles(text) ==
    IF Len(text) < 2 \/ text[1] # "[" \/ text[Len(text)] # "]" THEN ParseFailed
    ELSE IF Len(text) = 2 THEN [ok |-> TRUE, arts |-> <<>>]
    ELSE ParseItems(SubSeq(text, 2, Len(text) - 1))

\* the cap of the relevance filter (spec 4.3)
FilterCap == 5

(***************************************************************************)
(* Claims                                                                  *)
(***************************************************************************)
\* the steps of main that have returned
Returned(s) == stage > s \/ (stage = 4 /\ s = 4 /\ pc = "exit0")

\* C1: URL integrity of summarization.  Once the summarize step has
\* returned, every link of every article of the non-empty list it was handed
\* (filtered_news) is an exact substring of the message it returned (summary).
C1_UrlIntegrity ==
    Returned(3) =>
        LET given == ParseArticles(filtered_news)
        IN  (given.ok /\ given.arts # <<>>) =>
                \A i \in 1..Len(given.arts) : IsSubstring(given.arts[i].link, summary)

\* C2: link re-attachment of the relevance filter.  Once the filter step has
\* returned, each article it returned (filtered_news) whose title equals the
\* title of an article it was handed (raw_news) carries that article's link.
C2_LinkReattached ==
    Returned(2) =>
        LET given == ParseArticles(raw_news)
            kept == ParseArticles(filtered_news)
        IN  (given.ok /\ kept.ok) =>
                \A i \in 1..Len(kept.arts) : \A j \in 1..Len(given.arts) :
                    kept.arts[i].title = given.arts[j].title
                        => kept.arts[i].link = given.arts[j].link

\* C6: no partial completion.  A run that ended with an exception issued no
\* push request, and a run that ended normally issued one.
C6_NoPartialCompletion ==
    /\ pc = "exit1" => pushCalls = 0
    /\ pc = "exit0" => pushCalls >= 1

\* C7: no repeated external calls.  In a run the feed is queried at most
\* once and the push request is issued at most once.
C7_AtMostOnce == feedCalls <= 1 /\ pushCalls <= 1

\* C10: parse-failure fallback of the relevance filter.  When the reply the
\* filter step received is not a list of articles, what the step returned is
\* the first min(5, n) of the n articles it was handed, unmodified.
C10_ParseFailureFallback ==
    Returned(2) =>
        LET given == ParseArticles(raw_news)
        IN  (given.ok /\ ~ParseArticles(replies[2]).ok) =>
                filtered_news = ArticlesJson(SliceTo(given.arts, FilterCap))

\* a push request was built and the endpoint answered it
Answered == pushCalls > 0 /\ lastPush.status # 0

\* C3: length truncation in the delivery sender.  The text put in the push
\* request is the first 4990 characters of the message followed by the
\* ellipsis marker when the message is longer than 5000 characters, and the
\* message unchanged otherwise.
C3_Truncation ==
    pushCalls > 0 =>
        IF Len(lastPush.message) > 5000
        THEN /\ lastPush.text = SubSeq(lastPush.message, 1, 4990) \o Ellipsis
             /\ Len(lastPush.text) = 4990 + Len(Ellipsis)
        ELSE lastPush.text = lastPush.message

\* a message of 6000 characters was pushed as 4990 characters and the marker
C3_Witness ==
    /\ pushCalls > 0
    /\ Len(lastPush.message) = 6000
    /\ Len(lastPush.text) = 4994
    /\ lastPush.text # lastPush.message

\* C4: send outcome.  The sender reports success exactly when the endpoint
\* answered 200; for any other status it returns (as the tool result, without
\* raising) a failure value that carries the status code and the body.
C4_SendOutcome ==
    Answered =>
        /\ (lastPush.returned = <<"LINE_SEND_OK">>) <=> (lastPush.status = 200)
        /\ lastPush.status # 200 =>
              /\ IsSubstring(IntStr(lastPush.status), lastPush.returned)
              /\ IsSubstring(lastPush.body, lastPush.returned)
        /\ pc = "tools" /\ err = "none"
        /\ tool_results # <<>>
        /\ tool_results[Len(tool_results)].content = lastPush.returned

\* the endpoint answered 201 with a body and the sender reported the failure
C4_Witness ==
    /\ Answered
    /\ lastPush.status = 201
    /\ lastPush.body = <<"e">>
    /\ lastPush.returned # <<"LINE_SEND_OK">>
    /\ pc = "tools"

C8_ResolverFallback ==
    lastFetch # NoFetch =>
        /\ pc = "tools" /\ err = "none"
        /\ \A i \in 1..Len(lastFetch.articles) :
              LET e == lastFetch.entries[i]
                  raw == IF e.has_link THEN e.link ELSE <<>>
                  out == lastFetch.dec[raw]
              IN  IF out.kind = "dict" /\ out.status = TRUE
                  THEN lastFetch.articles[i].link = out.decoded_url
                  ELSE lastFetch.articles[i].link = raw

\* one fetch in which the decoder raised for one entry, whose link stayed
\* the raw link, answered a falsy status for another, and decoded a third
C8_Witness ==
    /\ lastFetch # NoFetch
    /\ pc = "tools"
    /\ Len(lastFetch.articles) >= 3
    /\ lastFetch.dec[Wrapped1].kind = "raise"
    /\ lastFetch.dec[<<>>] = DecFail
    /\ \E i, j \in 1..Len(lastFetch.articles) :
          /\ lastFetch.articles[i].link = Wrapped1
          /\ lastFetch.articles[j].link = Link2

\* C9: fetch bound and order.  For a requested maxItems (15 when not given)
\* the fetcher returns at most min(maxItems, 15) articles and the i-th
\* article is built from the i-th feed entry.
C9_FetchBoundAndOrder ==
    (lastFetch # NoFetch /\ MaxItemsOf(lastFetch.input) >= 0) =>
        /\ Len(lastFetch.articles) <= Min(MaxItemsOf(lastFetch.input), 15)
        /\ \A i \in 1..Len(lastFetch.articles) :
              lastFetch.articles[i] = ArticleOf(lastFetch.entries[i], lastFetch.dec)

(***************************************************************************)
(* The summarize step's no-news output                                     *)
(***************************************************************************)
\* main's today label
Today == <<"TODAY">>
\* the output the summarize system prompt prescribes when there is no news
NoNewsTemplate == <<"NEWS_HEADER\n(">> \o Today \o <<")\n\nNO_NEWS_TODAY">>
\* the text holds a list of no article
ZeroArticles(text) == ParseArticles(text).ok /\ ParseArticles(text).arts = <<>>

\* C11: empty-input summary.  When the summarize step was handed zero
\* articles, it has returned the fixed no-news template with the run's date
\* label and has made no call to the generation service.
C11_EmptyInputSummary ==
    (Returned(3) /\ ZeroArticles(filtered_news)) =>
        /\ summary = NoNewsTemplate
        /\ genCalls[3] = 0

\* the process has ended
Ended == pc \in {"exit0", "exit1"}

\* C12: exit status.  The process has ended with status 1 exactly when an
\* exception propagated out of a step of main; a run in which none did ends
\* with status 0 after step 4, and until it ends it can always go on.
C12_ExitStatus ==
    /\ pc = "exit1" <=> err # "none"
    /\ pc = "exit0" => (err = "none" /\ stage = 4)
    /\ ~Ended => ENABLED Next

\* a run that reached step 4 and ended with status 1 because requests.post
\* raised
C12_Witness ==
    /\ pc = "exit1"
    /\ stage = 4
    /\ err = "post"
    /\ pushCalls > 0

\* C13: stage order and data flow.  The steps run in the order collect,
\* evaluate, summarize, deliver, each started with the result the previous
\* one returned; a push request is issued only in the deliver step, after
\* the summarize step has returned, and the message handed to the sender is
\* exactly the text the summarize step returned.
C13_StageOrderAndDataFlow ==
    [][ /\ stage' \in {stage, stage + 1}
        /\ stage' = stage + 1 =>
              /\ pc' = "call"
              /\ messages' = <<UserText(UserPrompt(stage', locals'[stage]))>>
        /\ pushCalls' > pushCalls =>
              /\ stage = 4
              /\ lastPush'.message = summary ]_vars

\* C14: transmitted length bound.  Whatever message the sender was handed,
\* the text of the push request has at most 5000 characters.
C14_TransmittedLengthBound ==
    pushCalls > 0 => Len(lastPush.text) <= 5000

\* a message one character over the limit was pushed, shortened, and the
\* endpoint answered
C14_Witness ==
    /\ Answered
    /\ Len(lastPush.message) = 5001
    /\ Len(lastPush.text) < Len(lastPush.message)

\* C15: per-article fetch result.  Every entry taken from the feed yields
\* one article, in order: title and published are the entry's fields, or
\* empty when the entry lacks them, and link is the resolution of the
\* entry's raw link (empty when the entry has none); a resolution that
\* fails leaves the raw link, raises nothing and drops no entry.
C15_PerArticleFields ==
    lastFetch # NoFetch =>
        LET taken == EntriesTaken(lastFetch.input, lastFetch.entries)
            arts == lastFetch.articles
        IN  /\ pc = "tools" /\ err = "none"
            /\ Len(arts) = Len(taken)
            /\ \A i \in 1..Len(taken) :
                  LET e == taken[i]
                      raw == IF e.has_link THEN e.link ELSE <<>>
                      out == lastFetch.dec[raw]
                  IN  /\ arts[i].title = (IF e.has_title THEN e.title ELSE <<>>)
                      /\ arts[i].published =
                            (IF e.has_published THEN e.published ELSE <<>>)
                      /\ arts[i].link =
                            (IF out.kind = "dict" /\ out.status
                             THEN out.decoded_url ELSE raw)

\* a fetch of at least three entries, one without title and link, one
\* without published, in which the decoder raised on one link: the article
\* of each is there
C15_Witness ==
    /\ lastFetch # NoFetch
    /\ Len(lastFetch.articles) >= 3
    /\ Len(lastFetch.articles) = Len(lastFetch.entries)
    /\ lastFetch.dec[Wrapped2].kind = "raise"
    /\ \E i, j, k \in 1..Len(lastFetch.articles) :
          /\ ~lastFetch.entries[i].has_title
          /\ lastFetch.articles[i].title = <<>>
          /\ lastFetch.articles[i].link = <<>>
          /\ ~lastFetch.entries[j].has_published
          /\ lastFetch.articles[j].published = <<>>
          /\ lastFetch.articles[j].link = Wrapped2
          /\ lastFetch.articles[k].title = Title1

\* the step is a return of run_agent to main
AgentReturned == stage' = stage + 1 \/ pc' = "exit0"

\* C16: agent loop termination.  A call of run_agent issues at most max_iter
\* generation calls; at the first response whose stop reason is not tool_use
\* it returns the concatenated text of that response, after a response that
\* is tool_use it goes on, and it returns the sentinel exactly when all
\* max_iter responses requested a tool.
C16_AgentLoopTermination ==
    [][ /\ genCalls'[stage] <= max_iter
        /\ (pc = "call" /\ pc' # "exit1") =>
              /\ genCalls'[stage] = genCalls[stage] + 1
              /\ IF stop_reason' # "tool_use"
                 THEN AgentReturned /\ locals'[stage] = replies'[stage]
                 ELSE ~AgentReturned /\ pc' = "tools"
        /\ (pc = "tools" /\ pc' \notin {"tools", "exit1"}) =>
              IF genCalls[stage] = max_iter
              THEN AgentReturned /\ locals'[stage] = MaxIterText
              ELSE ~AgentReturned /\ pc' = "call" ]_vars

\* step 1 has returned the sentinel after max_iter generation calls, and
\* step 2 has returned the text of its first response
C16_Witness ==
    /\ stage = 3
    /\ raw_news = MaxIterText
    /\ genCalls[1] = max_iter
    /\ genCalls[2] = 1
    /\ filtered_news = replies[2]

\* tool_use blocks of a content, in order
ToolUses(blocks) == SelectSeq(blocks, LAMBDA b : b.type = "tool_use")

\* the messages list as it is handed to client.messages.create
ConversationOK ==
    /\ Len(messages) = 2 * iter + 1
    /\ messages[1] =
          UserText(UserPrompt(stage, IF stage = 1 THEN <<>> ELSE locals[stage - 1]))
    /\ \A k \in 1..Len(messages) :
          messages[k].role = (IF k % 2 = 1 THEN "user" ELSE "assistant")
    /\ \A k \in 1..Len(messages) :
          k % 2 = 0 =>
             LET uses == ToolUses(messages[k].blocks)
                 rs == messages[k + 1].results
             IN  /\ Len(rs) = Len(uses)
                 /\ \A j \in 1..Len(uses) :
                       /\ rs[j].type = "tool_result"
                       /\ rs[j].tool_use_id = uses[j].id

\* tools executed so far in the run
ToolCalls == feedCalls + pushCalls + otherCalls

\* C17: conversation well-formedness.  At every generation call the
\* messages start with the step's user prompt, alternate user / assistant
\* and end with a user message, and after each assistant response that
\* requested tools the next user message holds one tool_result per tool_use
\* block, with the block's id and in the blocks' order; each block's tool
\* is executed exactly once.
C17_ConversationWellFormed ==
    [][ /\ pc' = "call" => ConversationOK'
        /\ ToolCalls' \in {ToolCalls, ToolCalls + 1}
        /\ (pc = "tools" /\ pc' = "tools") =>
              /\ blk' = blk + 1
              /\ content' = content
              /\ ToolCalls' = ToolCalls + 1 <=> content[blk].type = "tool_use"
        /\ (pc = "tools" /\ pc' \notin {"tools", "exit1"}) =>
              /\ blk = Len(content) + 1
              /\ ToolCalls' = ToolCalls ]_vars

\* a generation call after a response with two tool_use blocks and a text
\* block between them: the user message holds the two results
C17_Witness ==
    /\ pc = "call"
    /\ iter >= 1
    /\ Len(messages[Len(messages)].results) = 2
    /\ Len(messages[Len(messages) - 1].blocks) = 3
    /\ messages[Len(messages)].results[1].tool_use_id = "id2"
    /\ messages[Len(messages)].results[2].tool_use_id = "id4"

\* C18: tool confinement.  A step executes only a tool that was offered to
\* its generation call: the feed is queried only in the collect step, a push
\* is issued only in the deliver step, and the evaluate and summarize steps
\* execute no tool, whatever tool name the reply requests.
C18_ToolConfinement ==
    [][ /\ feedCalls' > feedCalls => stage = 1
        /\ pushCalls' > pushCalls => stage = 4
        /\ (feedCalls' > feedCalls \/ pushCalls' > pushCalls) =>
              content[blk].name \in ToolsOf(stage) ]_vars

====
